---- MODULE Spec2Model ----
(***************************************************************************)
(* Model of mltools/ml4xcube/gapfilling/gap_filling.py (class Gapfiller).  *)
(*                                                                         *)
(* One run of gapfill() over one gap-size group: process_gap_array, then   *)
(* fill_the_gaps, which maps pixel_model over the gap indices on a pool    *)
(* and writes each Gap Result into a private copy of the target matrix.    *)
(*                                                                         *)
(* Numbers are integers.  The floating point NaN is the reserved code NaN  *)
(* and every comparison the code makes is written with NumPy's rules (NaN  *)
(* equals nothing, np.isclose(x, nan) is false).  A matrix is a function   *)
(* from coordinates <<i, j>> (0-based, as in NumPy) to numbers.            *)
(*                                                                         *)
(* The pool is multiprocessing.dummy.Pool: cpu_count threads of one        *)
(* process, which share the two global random generators.  A pixel_model   *)
(* call is one step, except for the sampling loop of get_random_points,    *)
(* which is one step per iteration and where threads interleave.           *)
(*                                                                         *)
(* Library calls whose results the repository does not compute (the SVR    *)
(* fit, cross_val_score, the two random generators) are deterministic      *)
(* stand-ins of their arguments and of the generator state.                *)
(***************************************************************************)
EXTENDS Integers, Sequences, FiniteSets, TLC

VARIABLES
    gap_value,          \* self.gap_value: NaN (real gaps) or Sentinel (simulated)
    predictor,          \* self.predictor
    hyperparameters,    \* self.hyperparameters
    data_with_gaps,     \* self.data_with_gaps[gap_size]: the target matrix as loaded
    actual_matrix,      \* self.actual_matrix[variable].data: the ground truth
    training_data,      \* self.training_data: sequence of historical matrices
    extra_matrix,       \* extra_matrix_lcc.nc: the classification matrix
    griddata_empty,     \* the installed SciPy: what griddata gives without points
    shape,              \* temp_gap_array.shape = <<n_strings, n_columns>>
    cpu_count,          \* mp.cpu_count(): the number of workers of self.pool
    rng0,               \* Python's random generator at the start of the process
    np_rng0,            \* NumPy's global generator at the start of the process
    temp_gap_array,     \* self.temp_gap_array
    temp_known_pixels,  \* self.temp_known_pixels
    gap_indices,        \* the result of process_gap_array
    pc,                 \* position of gapfill(): start, mapped, filling, done, raised
    task,               \* pool.imap: the state of every pixel_model call
    collected,          \* results consumed by the loop of fill_the_gaps
    filled_array,       \* local of fill_the_gaps
    actual_scores,      \* local of fill_the_gaps
    validation_scores,  \* local of fill_the_gaps
    rng,                \* state of Python's random generator
    np_rng,             \* state of NumPy's global generator
    diag,               \* gap indices for which interpolation printed its message
    call,               \* locals of the pixel_model call that finished last
    run_no,             \* 1 for the first run, 2 for the re-run on the same inputs,
                        \* 3 for the re-run with one worker and the same generators
    first_filled,       \* the filled matrix the first run returned
    first_results       \* the Gap Results of the first run

vars == <<gap_value, predictor, hyperparameters, data_with_gaps, actual_matrix,
          training_data, extra_matrix, griddata_empty, shape, temp_gap_array, temp_known_pixels,
          gap_indices, pc, task, collected, filled_array, actual_scores,
          validation_scores, rng, np_rng, diag, call, run_no, first_filled,
          first_results, cpu_count, rng0, np_rng0>>

inputs == <<gap_value, predictor, hyperparameters, data_with_gaps, actual_matrix,
            training_data, extra_matrix, griddata_empty, shape, cpu_count>>

-----------------------------------------------------------------------------
(* Numbers and NumPy's comparisons *)

\* np.nan
NaN == -999

\* the artificial gap value of get_arrays
Sentinel == -100

\* largest data value of the bounded inputs (data values are 0..MaxVal)
MaxVal == 2

\* number of historical time steps of the bounded inputs
NumHist == 3

\* number of start states of Python's random generator
NumSeeds == 2

\* the largest number of workers of the pool
MaxWorkers == 2

\* the interpreter lets another thread run only after a time slice: a thread
\* in the sampling loop can be switched out every SwitchEvery iterations
SwitchEvery == 100

isnan(x) == x = NaN

\* a == b on floats: NaN equals nothing
np_eq(a, b) == a # NaN /\ b # NaN /\ a = b

\* np.isclose(a, b) with equal_nan=False; integers are close iff equal
isclose(a, b) == np_eq(a, b)

Abs(x) == IF x < 0 THEN -x ELSE x

\* a - b and abs() on floats: NaN propagates
np_absdiff(a, b) == IF isnan(a) \/ isnan(b) THEN NaN ELSE Abs(a - b)

Min(a, b) == IF a < b THEN a ELSE b

\* the sum of a sequence of integers, by halves
RECURSIVE SumSeq(_)
SumSeq(s) ==
    IF Len(s) = 0 THEN 0
    ELSE IF Len(s) = 1 THEN s[1]
    ELSE LET h == Len(s) \div 2
         IN SumSeq(SubSeq(s, 1, h)) + SumSeq(SubSeq(s, h + 1, Len(s)))

\* values a result field can hold
Num(v) == [t |-> "num", v |-> <<v>>]
Arr(s) == [t |-> "array", v |-> s]
None == [t |-> "None", v |-> <<>>]
NotAvailable == [t |-> "not available", v |-> <<>>]
NotEnough == "Not enough known pixels - proceed with interpolation"

-----------------------------------------------------------------------------
(* Matrices *)

Size(sh) == sh[1] * sh[2]

\* coordinates in row-major order, the order of np.argwhere
AllCoords(sh) == [p \in 1..Size(sh) |-> <<(p - 1) \div sh[2], (p - 1) % sh[2]>>]

Cells(sh) == (0..(sh[1] - 1)) \X (0..(sh[2] - 1))

\* np.argwhere(np.isnan(m))
argwhere_nan(m, sh) == LET T(c) == isnan(m[c]) IN SelectSeq(AllCoords(sh), T)

\* np.argwhere(~np.isnan(m))
argwhere_notnan(m, sh) == LET T(c) == ~isnan(m[c]) IN SelectSeq(AllCoords(sh), T)

\* np.argwhere(m == v)
argwhere_eq(m, sh, v) == LET T(c) == np_eq(m[c], v) IN SelectSeq(AllCoords(sh), T)

\* np.argwhere(m != v)
argwhere_ne(m, sh, v) == LET T(c) == ~np_eq(m[c], v) IN SelectSeq(AllCoords(sh), T)

\* np.isnan(m).sum()
count_nan(m, sh) == Cardinality({c \in Cells(sh) : isnan(m[c])})

\* (m == v).sum()
count_eq(m, sh, v) == Cardinality({c \in Cells(sh) : np_eq(m[c], v)})

Range(s) == {s[k] : k \in 1..Len(s)}

NoDuplicates(s) == \A a, b \in 1..Len(s) : a # b => s[a] # s[b]

-----------------------------------------------------------------------------
(* The bounded inputs: what get_arrays loads *)

Modes == {NaN, Sentinel}
Predictors == {"AllPoints", "RandomPoints", "LCC"}
Hyperparameters == {"Custom", "RandomGridSearch", "FullGridSearch"}
HistPatterns == {"clean", "cloudy", "partial", "zeros", "moved"}
ExtraPatterns == {"uniform", "striped"}

\* target matrices: shape, number of gap cells, number of further missing
\* cells, and the gap modes, history patterns and hyperparameter modes they
\* are combined with
Layouts ==
    { [sh |-> <<2, 2>>, ng |-> 1, nn |-> 0, modes |-> Modes,
       hists |-> HistPatterns, hypers |-> Hyperparameters],
      [sh |-> <<2, 2>>, ng |-> 1, nn |-> 3, modes |-> Modes,
       hists |-> {"clean", "cloudy"}, hypers |-> Hyperparameters],
      [sh |-> <<2, 2>>, ng |-> 2, nn |-> 1, modes |-> Modes,
       hists |-> HistPatterns, hypers |-> Hyperparameters],
      [sh |-> <<4, 4>>, ng |-> 1, nn |-> 0, modes |-> Modes,
       hists |-> HistPatterns, hypers |-> Hyperparameters],
      [sh |-> <<4, 4>>, ng |-> 3, nn |-> 2, modes |-> Modes,
       hists |-> HistPatterns, hypers |-> Hyperparameters],
      [sh |-> <<4, 4>>, ng |-> 8, nn |-> 0, modes |-> Modes,
       hists |-> {"clean", "cloudy"}, hypers |-> Hyperparameters],
      [sh |-> <<4, 4>>, ng |-> 10, nn |-> 6, modes |-> Modes,
       hists |-> {"clean"}, hypers |-> Hyperparameters],
      [sh |-> <<8, 8>>, ng |-> 2, nn |-> 0, modes |-> Modes,
       hists |-> {"clean", "partial"}, hypers |-> Hyperparameters],
      [sh |-> <<8, 8>>, ng |-> 2, nn |-> 3, modes |-> Modes,
       hists |-> {"clean"}, hypers |-> {"Custom"}],
      [sh |-> <<11, 11>>, ng |-> 2, nn |-> 1, modes |-> Modes,
       hists |-> {"clean"}, hypers |-> {"Custom"}],
      [sh |-> <<11, 11>>, ng |-> 2, nn |-> 19, modes |-> {Sentinel},
       hists |-> {"clean"}, hypers |-> {"Custom", "RandomGridSearch"}],
      [sh |-> <<11, 11>>, ng |-> 21, nn |-> 0, modes |-> {Sentinel},
       hists |-> {"clean"}, hypers |-> {"FullGridSearch"}] }

Flat(c, sh) == c[1] * sh[2] + c[2]

\* gap and missing cells are scattered over the matrix
Rank(c, sh) == (Flat(c, sh) * 7) % Size(sh)

DataValue(c, sh, t) == (Flat(c, sh) + t) % (MaxVal + 1)

\* the matrix with gaps: gv marks the gaps
TargetOf(l, gv) ==
    [c \in Cells(l.sh) |->
        IF Rank(c, l.sh) < l.ng THEN gv
        ELSE IF Rank(c, l.sh) < l.ng + l.nn THEN NaN
        ELSE DataValue(c, l.sh, 0)]

\* the ground truth: the target matrix before the artificial gaps were cut
ActualOf(l, gv) ==
    [c \in Cells(l.sh) |->
        IF Rank(c, l.sh) < l.ng THEN (IF gv = Sentinel THEN DataValue(c, l.sh, 1) ELSE NaN)
        ELSE IF Rank(c, l.sh) < l.ng + l.nn THEN NaN
        ELSE DataValue(c, l.sh, 0)]

\* the historical cube without the date of the target matrix
HistoryOf(l, h) ==
    [t \in 1..NumHist |->
        [c \in Cells(l.sh) |->
            CASE h = "clean" -> DataValue(c, l.sh, t)
              [] h = "cloudy" -> IF t = 1 THEN NaN ELSE DataValue(c, l.sh, t)
              [] h = "partial" -> IF t = 2 /\ Flat(c, l.sh) % 2 = 1 THEN NaN
                                  ELSE DataValue(c, l.sh, t)
              [] h = "zeros" -> 0
              [] h = "moved" -> IF t = 1 /\ Rank(c, l.sh) >= l.ng + l.nn THEN NaN
                                ELSE DataValue(c, l.sh, t)]]

ExtraOf(l, e) ==
    [c \in Cells(l.sh) |-> IF e = "uniform" THEN 10 ELSE 10 + (Flat(c, l.sh) % 4)]

NoTasks == <<>>

NoCall == [gap_index |-> <<>>, rp |-> <<>>, rp_called |-> FALSE, coords |-> <<>>,
           insufficient |-> FALSE, table |-> <<>>, built |-> FALSE, trained |-> FALSE,
           train_failed |-> FALSE, n_train |-> 0, interpolated |-> FALSE,
           interp_none |-> FALSE, raised |-> FALSE, prints |-> 0, np_rng |-> 0,
           path |-> <<>>, result |-> <<>>]

\* the runs that are also made on a pool of several workers (no more workers
\* than gap pixels, the others would stay idle): on a small matrix, or on one
\* where get_random_points samples
ThreadedScenario ==
    LET gaps == IF isnan(gap_value) THEN count_nan(data_with_gaps, shape)
                ELSE count_eq(data_with_gaps, shape, gap_value)
    IN /\ cpu_count <= gaps
       /\ rng = 0 /\ np_rng = 0
       /\ \/ Size(shape) = 4
          \/ Size(shape) > 100 /\ gap_value = Sentinel /\ hyperparameters = "Custom"
                               /\ gaps = 2

\* the state after __init__ and get_arrays
Init ==
    /\ \E l \in Layouts, h \in HistPatterns, e \in ExtraPatterns :
        /\ h \in l.hists
        /\ gap_value \in l.modes
        /\ predictor \in Predictors
        /\ hyperparameters \in l.hypers
        /\ predictor # "LCC" => e = "uniform"
        /\ shape = l.sh
        /\ data_with_gaps = TargetOf(l, gap_value)
        /\ actual_matrix = ActualOf(l, gap_value)
        /\ training_data = HistoryOf(l, h)
        /\ extra_matrix = ExtraOf(l, e)
        /\ griddata_empty \in {"IndexError", "nan"}
        /\ l.ng + l.nn < Size(l.sh) => griddata_empty = "nan"
    /\ rng \in 0..(NumSeeds - 1)
    /\ np_rng \in {0, 1}
    /\ predictor = "AllPoints" => rng = 0
    /\ hyperparameters = "FullGridSearch" => np_rng = 0
    /\ temp_gap_array = <<>>
    /\ temp_known_pixels = 0
    /\ gap_indices = <<>>
    /\ pc = "start"
    /\ task = NoTasks
    /\ collected = 0
    /\ filled_array = <<>>
    /\ actual_scores = <<>>
    /\ validation_scores = <<>>
    /\ diag = <<>>
    /\ call = NoCall
    /\ run_no = 1
    /\ first_filled = <<>>
    /\ first_results = <<>>
    /\ rng0 = rng
    /\ np_rng0 = np_rng
    /\ cpu_count \in 1..MaxWorkers
    /\ cpu_count > 1 => ThreadedScenario

-----------------------------------------------------------------------------
(* Predictor selection *)

\* the non-gap points of pixel_model (AllPoints) and of get_random_points
known_coords ==
    IF isnan(gap_value) THEN argwhere_notnan(temp_gap_array, shape)
    ELSE argwhere_ne(temp_gap_array, shape, gap_value)

\* a selector's answer: the message string, or a coordinate list
Message == [str |-> TRUE, list |-> <<>>]
CoordList(l) == [str |-> FALSE, list |-> l]

\* get_random_points up to its loop: "sample", or the value it returns
random_points_entry ==
    IF temp_known_pixels >= 100 THEN "sample"
    ELSE IF temp_known_pixels >= 50 THEN "all"
    ELSE "message"

\* (random_i, random_j) of one loop iteration, read from the generator state
random_coordinates(s) ==
    LET p == s % Size(shape) IN <<p \div shape[2], p % shape[2]>>

\* the generator after the two randint calls of one iteration: a full-period
\* sequence over the cells, so every coordinate is drawn again and again
next_rng(s) == (s + 7) % Size(shape)

\* is the drawn value rejected as a gap (the first branch of the loop body)
sample_is_gap(v) == isclose(v, Sentinel) \/ isclose(v, NaN)

\* one iteration of the while loop: the list after it
sample_step(cs, coordinates) ==
    IF sample_is_gap(temp_gap_array[coordinates]) THEN cs
    ELSE IF \E k \in 1..Len(cs) : cs[k] = coordinates THEN cs
    ELSE Append(cs, coordinates)

\* the loop condition, number_iter being the length of the list
sample_continues(number_iter) == number_iter <= 100

\* squared Euclidean distance: cdist orders the candidates as its root does
dist2(a, b) == (a[1] - b[1]) * (a[1] - b[1]) + (a[2] - b[2]) * (a[2] - b[2])

\* np.inf among the distances of one matrix
Inf == shape[1] * shape[1] + shape[2] * shape[2] + 1

\* np.argmin taking the last index of the smallest element
argmin_last(d) ==
    LET vals == {d[k] : k \in 1..Len(d)}
        least == CHOOSE x \in vals : \A y \in vals : x <= y
    IN CHOOSE k \in 1..Len(d) : d[k] = least /\ \A m \in (k + 1)..Len(d) : d[m] # least

\* np.argmin: the first index of the smallest element
argmin(d) ==
    LET vals == {d[k] : k \in 1..Len(d)}
        least == CHOOSE x \in vals : \A y \in vals : x <= y
    IN CHOOSE k \in 1..Len(d) : d[k] = least /\ \A m \in 1..(k - 1) : d[m] # least

\* the loop selecting the nearest coordinates
RECURSIVE select_nearest(_, _, _, _)
select_nearest(coords, distances, n, selected) ==
    IF n = 0 THEN selected
    ELSE LET index_min_dist == argmin(distances)
         IN select_nearest(coords, [distances EXCEPT ![index_min_dist] = Inf],
                           n - 1, Append(selected, coords[index_min_dist]))

\* the same-class candidates of get_extra_matrix_points
lcc_candidates(gap_index) ==
    LET extra_code == extra_matrix[gap_index]
        new_extra_matrix ==
            [c \in Cells(shape) |->
                IF isnan(gap_value)
                THEN (IF isnan(temp_gap_array[c]) THEN gap_value ELSE extra_matrix[c])
                ELSE (IF np_eq(temp_gap_array[c], gap_value) THEN gap_value
                      ELSE extra_matrix[c])]
    IN argwhere_eq(new_extra_matrix, shape, extra_code)

\* get_extra_matrix_points from the distance computation on
lcc_select(gap_index, coords) ==
    LET distances == [k \in 1..Len(coords) |-> dist2(gap_index, coords[k])]
        selected_coords == select_nearest(coords, distances, Min(40, Len(coords)), <<>>)
    IN Append(selected_coords, gap_index)

-----------------------------------------------------------------------------
(* The feature table: a DataFrame with its row labels, column labels, values *)

Indices(n) == [k \in 1..n |-> k]

\* create_dataframe
create_dataframe(coords) ==
    [idx |-> [r \in 1..(NumHist + 1) |-> r - 1],
     cols |-> [k \in 1..Len(coords) |-> k - 1],
     val |-> [r \in 1..(NumHist + 1) |->
                [k \in 1..Len(coords) |->
                    IF r <= NumHist THEN training_data[r][coords[k]]
                    ELSE temp_gap_array[coords[k]]]]]

\* dataframe.replace(-100, np.nan, inplace=True)
replace_sentinel(df) ==
    [df EXCEPT !.val = [r \in 1..Len(df.val) |->
                          [k \in 1..Len(df.val[r]) |->
                              IF np_eq(df.val[r][k], Sentinel) THEN NaN
                              ELSE df.val[r][k]]]]

KeepRows(df, keep) ==
    [df EXCEPT !.idx = [r \in 1..Len(keep) |-> df.idx[keep[r]]],
               !.val = [r \in 1..Len(keep) |-> df.val[keep[r]]]]

\* dataframe.dropna(how='all')
dropna_all(df) ==
    LET T(r) == \E k \in 1..Len(df.val[r]) : ~isnan(df.val[r][k])
    IN KeepRows(df, SelectSeq(Indices(Len(df.val)), T))

\* dataframe.dropna()
dropna_any(df) ==
    LET T(r) == \A k \in 1..Len(df.val[r]) : ~isnan(df.val[r][k])
    IN KeepRows(df, SelectSeq(Indices(Len(df.val)), T))

KeepCols(df, keep) ==
    [df EXCEPT !.cols = [k \in 1..Len(keep) |-> df.cols[keep[k]]],
               !.val = [r \in 1..Len(df.val) |->
                          [k \in 1..Len(keep) |-> df.val[r][keep[k]]]]]

\* preprocess_dataframe reading the first row (iloc[:1]) for the last one
preprocess_first_row(df) ==
    IF Len(df.val) = 0 THEN df
    ELSE LET n == Len(df.cols)
             first_row == df.val[1]
             T(k) == k = n \/ ~isnan(first_row[k])
         IN KeepCols(df, SelectSeq(Indices(n), T))

\* preprocess_dataframe: drop the columns with a gap in the last row; the
\* set_axis calls return a new frame that is not kept, so the labels stay
preprocess_dataframe(df) ==
    IF Len(df.val) = 0 THEN df
    ELSE LET n == Len(df.cols)
             last_row == df.val[Len(df.val)]
             T(k) == k = n \/ ~isnan(last_row[k])
         IN KeepCols(df, SelectSeq(Indices(n), T))

\* lines 288-299 of pixel_model
build_table(coords) ==
    preprocess_dataframe(dropna_all(replace_sentinel(create_dataframe(coords))))

DropLast(s) == SubSeq(s, 1, Len(s) - 1)

\* get_train_test_sets
get_train_test_sets(df) ==
    LET n == Len(df.val)
        train == dropna_any(KeepRows(df, Indices(IF n = 0 THEN 0 ELSE n - 1)))
    IN [X_train |-> [r \in 1..Len(train.val) |-> DropLast(train.val[r])],
        y_train |-> [r \in 1..Len(train.val) |-> train.val[r][Len(train.val[r])]],
        X_test |-> IF n = 0 THEN <<>> ELSE <<DropLast(df.val[n])>>]

\* X_train.any()
array_any(X) == \E r \in 1..Len(X) : \E k \in 1..Len(X[r]) : X[r][k] # 0

-----------------------------------------------------------------------------
(* train_model: the SVR and its cross-validation are library code *)

\* KFold(n_splits=3), cv=3
n_splits == 3

\* stand-in for one fold's neg_mean_absolute_error: never positive, and it
\* depends on the shuffle, that is on the state of NumPy's generator
fold_score(y_train, k, seed) == 0 - ((SumSeq(y_train) + k + seed) % (MaxVal + 1))

\* stand-in for estimator.predict(X_test): a finite data value, a function of
\* the training sample, the test row and the hyperparameters that were fitted
svr_predict(X_train, y_train, X_test, params) ==
    (SumSeq(y_train) + SumSeq(X_test[1]) + Len(X_test[1]) + params) % (MaxVal + 1)

\* the generator after a shuffle or a randomized search
next_np_rng(s) == (s + 1) % 3

\* cross_val_score and GridSearchCV.fit raise when a fold would be empty
cv_raises(X_train) == Len(X_train) < n_splits

\* the validation score of a successful fit
validation_score_of(hp, y_train, seed) ==
    IF hp = "Custom"
    THEN Arr([k \in 1..n_splits |-> fold_score(y_train, k, seed)])
    ELSE Num(Abs(fold_score(y_train, 1, IF hp = "RandomGridSearch" THEN seed ELSE 0)))

\* train_model predicting with an estimator fitted on a shuffled fold in every
\* hyperparameter mode
train_model_fold_estimator(X_train, y_train, X_test, seed) ==
    IF cv_raises(X_train)
    THEN [predicted |-> None, validation_score |-> None, np_rng |-> next_np_rng(seed)]
    ELSE [predicted |-> Num(svr_predict(X_train, y_train, X_test, seed)),
          validation_score |-> validation_score_of(hyperparameters, y_train, seed),
          np_rng |-> next_np_rng(seed)]

\* train_model with every search, the full grid too, drawing from NumPy's
\* global generator and predicting with the estimator it drew
train_model_drawn_estimator(X_train, y_train, X_test, seed) ==
    IF cv_raises(X_train)
    THEN [predicted |-> None, validation_score |-> None, np_rng |-> next_np_rng(seed)]
    ELSE [predicted |-> Num(svr_predict(X_train, y_train, X_test,
                             IF hyperparameters = "Custom" THEN 0 ELSE seed)),
          validation_score |-> validation_score_of(hyperparameters, y_train, seed),
          np_rng |-> next_np_rng(seed)]

\* train_model: predicted, validation_score and the generator afterwards
train_model(X_train, y_train, X_test, seed) ==
    LET random == hyperparameters # "FullGridSearch"
        after == IF random THEN next_np_rng(seed) ELSE seed
    IN IF cv_raises(X_train)
       THEN [predicted |-> None, validation_score |-> None, np_rng |-> after]
       ELSE [predicted |-> Num(svr_predict(X_train, y_train, X_test,
                                IF hyperparameters = "RandomGridSearch" THEN seed ELSE 0)),
             validation_score |-> validation_score_of(hyperparameters, y_train, seed),
             np_rng |-> after]

-----------------------------------------------------------------------------
(* interpolation *)

\* the check for a matrix of just gaps (line 659)
interpolation_skips ==
    Size(shape) - count_eq(temp_gap_array, shape, Sentinel)
        + count_nan(temp_gap_array, shape) <= 10

\* the known pixels after the gap value was replaced by NaN
interpolation_known ==
    LET T(c) == ~(np_eq(temp_gap_array[c], gap_value) \/ isnan(temp_gap_array[c]))
    IN SelectSeq(AllCoords(shape), T)

\* griddata(..., method='nearest'): the value of a nearest known pixel
nearest_value(known, gap_index) ==
    LET d == [k \in 1..Len(known) |-> dist2(gap_index, known[k])]
    IN temp_gap_array[known[argmin(d)]]

\* what a call gives: no value and the message, a value, or an error; with
\* no known pixel at all griddata raises IndexError or gives nan, depending
\* on the SciPy release that is installed
interpolation(gap_index) ==
    IF interpolation_skips THEN [kind |-> "none", v |-> None]
    ELSE IF interpolation_known = <<>>
         THEN (IF griddata_empty = "IndexError" THEN [kind |-> "raise", v |-> None]
               ELSE [kind |-> "value", v |-> Num(NaN)])
         ELSE [kind |-> "value", v |-> Num(nearest_value(interpolation_known, gap_index))]

-----------------------------------------------------------------------------
(* pixel_model from line 273 on: coords is the selector's answer, o is what  *)
(* interpolation gives for this pixel, seed the state of NumPy's generator  *)

\* lines 277-281: the actual score on the path without coordinates.  For a
\* real-gap run the Dataset self.actual_matrix is indexed with a tuple, which
\* raises KeyError
actual_score_no_coords == IF gap_value # Sentinel THEN "raise" ELSE "not available"

\* lines 319-324: the actual score on the modelling path; abs(x - None) raises
actual_score_modelled(gap_index, prediction) ==
    IF gap_value = Sentinel
    THEN (IF prediction = None THEN "raise" ELSE "numeric")
    ELSE "not available"

\* the return statements at lines 282 and 325
Returned(c, gap_index, prediction, actual_score, validation_score) ==
    [c EXCEPT !.result = <<gap_index, prediction, actual_score, validation_score>>,
              !.path = Append(c.path, "DONE")]

\* an exception leaves the call
Raised(c) == [c EXCEPT !.raised = TRUE, !.path = Append(c.path, "RAISED")]

\* lines 273-282
pixel_no_coords(c0, gap_index, o) ==
    LET c == [c0 EXCEPT !.insufficient = TRUE, !.interpolated = TRUE,
                        !.path = <<"SELECT_PREDICTORS", "INTERPOLATE">>,
                        !.interp_none = (o.kind = "none"),
                        !.prints = IF o.kind = "none" THEN 1 ELSE 0]
    IN IF o.kind = "raise" THEN Raised(c)
       ELSE IF actual_score_no_coords = "raise" THEN Raised(c)
       ELSE Returned(c, gap_index, o.v, NotAvailable, NotAvailable)

\* lines 284-286 putting the gap pixel in front of the list
gap_index_first(selected, gap_index) ==
    IF predictor # "LCC" THEN <<gap_index>> \o selected ELSE selected

\* lines 284-286: outside LCC the gap pixel is appended to the list
append_gap_index(selected, gap_index) ==
    IF predictor # "LCC" THEN Append(selected, gap_index) ELSE selected

\* lines 284-325
pixel_with_coords(c0, gap_index, selected, o, seed) ==
    LET coords == append_gap_index(selected, gap_index)
        dataframe == build_table(coords)
        sets == get_train_test_sets(dataframe)
        train == array_any(sets.X_train)
        fit == IF train THEN train_model(sets.X_train, sets.y_train, sets.X_test, seed)
               ELSE [predicted |-> None, validation_score |-> None, np_rng |-> seed]
        \* interpolation is reached at line 306, at line 314, or at both
        first == ~train
        second == IF train THEN fit.predicted = None ELSE o.kind = "none"
        interp == first \/ second
        steps == <<"SELECT_PREDICTORS", "BUILD_TABLE", "SPLIT">>
                 \o (IF train THEN <<"TRAIN">> ELSE <<"INTERPOLATE">>)
                 \o (IF second THEN <<"INTERPOLATE">> ELSE <<>>)
        c == [c0 EXCEPT !.coords = coords, !.table = dataframe, !.built = TRUE,
                        !.trained = train, !.train_failed = train /\ fit.predicted = None,
                        !.n_train = Len(sets.X_train),
                        !.path = steps,
                        !.interpolated = interp,
                        !.interp_none = interp /\ o.kind = "none",
                        !.prints = IF o.kind = "none"
                                   THEN (IF first THEN 1 ELSE 0) + (IF second THEN 1 ELSE 0)
                                   ELSE 0,
                        !.np_rng = fit.np_rng]
        prediction == IF interp THEN o.v ELSE fit.predicted
        validation_score == IF interp THEN NotAvailable ELSE fit.validation_score
        score == actual_score_modelled(gap_index, prediction)
    IN IF interp /\ o.kind = "raise" THEN Raised(c)
       ELSE IF score = "raise" THEN Raised(c)
       ELSE Returned(c, gap_index, prediction,
                     IF score = "numeric"
                     THEN Num(np_absdiff(actual_matrix[gap_index], prediction.v[1]))
                     ELSE NotAvailable,
                     validation_score)

\* the locals of a call at its start
NewCall(gap_index, rp, rp_called, seed) ==
    [gap_index |-> gap_index, rp |-> rp, rp_called |-> rp_called, coords |-> <<>>,
     insufficient |-> FALSE, table |-> <<>>, built |-> FALSE, trained |-> FALSE,
     train_failed |-> FALSE, n_train |-> 0, interpolated |-> FALSE,
     interp_none |-> FALSE, raised |-> FALSE, prints |-> 0, np_rng |-> seed,
     path |-> <<>>, result |-> <<>>]

\* pixel_model once the selector has answered
pixel_model(gap_index, sel, rp, rp_called, seed) ==
    LET o == interpolation(gap_index)
    IN IF sel.str
       THEN pixel_no_coords(NewCall(gap_index, rp, rp_called, seed), gap_index, o)
       ELSE pixel_with_coords(NewCall(gap_index, rp, rp_called, seed), gap_index,
                              sel.list, o, seed)

-----------------------------------------------------------------------------
(* The run *)

\* lines 191-197
known_pixels(m) ==
    IF isnan(gap_value) THEN Size(shape) - count_nan(m, shape)
    ELSE Size(shape) - count_eq(m, shape, gap_value) - count_nan(m, shape)

\* lines 199-203
gap_pixels(m) ==
    IF isnan(gap_value) THEN argwhere_nan(m, shape)
    ELSE argwhere_eq(m, shape, gap_value)

process_gap_array ==
    /\ pc = "start"
    /\ temp_gap_array' = data_with_gaps
    /\ temp_known_pixels' = known_pixels(data_with_gaps)
    /\ gap_indices' = gap_pixels(data_with_gaps)
    /\ pc' = "indexed"
    /\ UNCHANGED <<inputs, task, collected, filled_array, actual_scores,
                   validation_scores, rng, np_rng, diag, call, run_no, first_filled, first_results,
                   rng0, np_rng0>>

Pending == [st |-> "pending", coords |-> <<>>, slice |-> 0, result |-> <<>>]

\* np.copy(self.temp_gap_array)
np_copy(m) == m

\* fill_the_gaps up to pool.imap: the lists, the copy, one call per gap index
fill_the_gaps ==
    /\ pc = "indexed"
    /\ actual_scores' = <<>>
    /\ validation_scores' = <<>>
    /\ filled_array' = np_copy(temp_gap_array)
    /\ task' = [k \in 1..Len(gap_indices) |-> Pending]
    /\ collected' = 0
    /\ pc' = "filling"
    /\ UNCHANGED <<inputs, temp_gap_array, temp_known_pixels, gap_indices,
                   rng, np_rng, diag, call, run_no, first_filled, first_results,
                   rng0, np_rng0>>

\* the message of interpolation, printed n times for gap_index
Printed(d, gap_index, n) ==
    IF n = 0 THEN d ELSE IF n = 1 THEN Append(d, gap_index)
    ELSE Append(Append(d, gap_index), gap_index)

\* the end of a pixel_model call: it returned or it raised
Finish(k, c) ==
    /\ task' = [task EXCEPT ![k] = [st |-> IF c.raised THEN "raised" ELSE "done",
                                    coords |-> <<>>, slice |-> 0,
                                    result |-> c.result]]
    /\ call' = c
    /\ np_rng' = c.np_rng
    /\ diag' = Printed(diag, c.gap_index, c.prints)

\* what get_random_points returns without sampling
random_points_direct ==
    IF random_points_entry = "all" THEN CoordList(known_coords) ELSE Message

\* the selector's answer to pixel_model, given the answer of get_random_points
\* where the strategy called it
selector_answer(gap_index, rp) ==
    IF predictor = "LCC" /\ ~rp.str THEN CoordList(lcc_select(gap_index, rp.list))
    ELSE rp

\* the workers of this run: the pool of gapfill, one worker in the re-run
\* that gives the sequential results
Workers == IF run_no = 3 THEN 1 ELSE cpu_count

\* the workers take the calls in the order of the gap indices, each worker one
\* call at a time: call k can run when fewer than Workers earlier calls are
\* unfinished
MayStart(k) ==
    /\ task[k].st = "pending"
    /\ Cardinality({j \in 1..(k - 1) : task[j].st \in {"pending", "sampling"}}) < Workers

\* pixel_model(gap_index): the whole call, or the call up to the sampling
\* loop of get_random_points
PixelModel(k) ==
    /\ pc = "filling"
    /\ MayStart(k)
    /\ LET gap_index == gap_indices[k]
           candidates == IF predictor = "LCC" THEN lcc_candidates(gap_index) ELSE <<>>
           uses_random == \/ predictor = "RandomPoints"
                          \/ predictor = "LCC" /\ Len(candidates) < 40
       IN IF uses_random /\ random_points_entry = "sample"
          THEN /\ task' = [task EXCEPT ![k] = [st |-> "sampling", coords |-> <<>>,
                                                slice |-> 0, result |-> <<>>]]
               /\ UNCHANGED <<call, np_rng, diag>>
          ELSE Finish(k, pixel_model(gap_index,
                          IF predictor = "AllPoints" THEN CoordList(known_coords)
                          ELSE IF uses_random
                               THEN selector_answer(gap_index, random_points_direct)
                               ELSE CoordList(lcc_select(gap_index, candidates)),
                          IF uses_random THEN random_points_direct.list ELSE <<>>,
                          uses_random, np_rng))
    /\ UNCHANGED <<inputs, temp_gap_array, temp_known_pixels, gap_indices, pc,
                   collected, filled_array, actual_scores, validation_scores,
                   rng, run_no, first_filled, first_results,
                   rng0, np_rng0>>

\* one iteration of the loop of get_random_points; when the loop ends,
\* the rest of the pixel_model call
SampleIter(k) ==
    /\ pc = "filling"
    /\ task[k].st = "sampling"
    /\ \A j \in DOMAIN task \ {k} : task[j].st = "sampling" => task[j].slice = 0
    /\ LET gap_index == gap_indices[k]
           coords == sample_step(task[k].coords, random_coordinates(rng))
       IN /\ rng' = next_rng(rng)
          /\ IF sample_continues(Len(coords))
             THEN /\ task' = [task EXCEPT ![k].coords = coords,
                                          ![k].slice = IF Workers > 1
                                                       THEN (@ + 1) % SwitchEvery
                                                       ELSE 0]
                  /\ UNCHANGED <<call, np_rng, diag>>
             ELSE Finish(k, pixel_model(gap_index,
                             selector_answer(gap_index, CoordList(coords)),
                             coords, TRUE, np_rng))
    /\ UNCHANGED <<inputs, temp_gap_array, temp_known_pixels, gap_indices, pc,
                   collected, filled_array, actual_scores, validation_scores,
                   run_no, first_filled, first_results,
                   rng0, np_rng0>>

\* the element filled_array[i, j] = prediction stores: None becomes nan
stored_value(prediction) == IF prediction = None THEN NaN ELSE prediction.v[1]

\* the cell of filled_array the loop writes for a result
written_cell(result) == result[1]

\* the write with filled_array bound to self.temp_gap_array itself, no copy
target_after_write_alias(m, cell, v) == [m EXCEPT ![cell] = v]

\* the array self.temp_gap_array after the write to filled_array: the copy is
\* private, so the write does not reach it
target_after_write(m, cell, v) == m

\* one iteration of the loop over the results, in the order of imap; a call
\* that raised raises here
Collect ==
    /\ pc = "filling"
    /\ collected < Len(gap_indices)
    /\ LET t == task[collected + 1]
       IN \/ /\ t.st = "raised"
             /\ pc' = "raised"
             /\ UNCHANGED <<collected, filled_array, actual_scores,
                            validation_scores, temp_gap_array>>
          \/ /\ t.st = "done"
             /\ filled_array' = [filled_array EXCEPT
                                    ![written_cell(t.result)] = stored_value(t.result[2])]
             /\ temp_gap_array' = target_after_write(temp_gap_array,
                                       written_cell(t.result), stored_value(t.result[2]))
             /\ actual_scores' = Append(actual_scores, t.result[3])
             /\ validation_scores' = Append(validation_scores, t.result[4])
             /\ collected' = collected + 1
             /\ pc' = pc
    /\ UNCHANGED <<inputs, temp_known_pixels, gap_indices, task, rng, np_rng,
                   diag, call, run_no, first_filled, first_results,
                   rng0, np_rng0>>

\* return filled_array, actual_scores, validation_scores
Return ==
    /\ pc = "filling"
    /\ collected = Len(gap_indices)
    /\ pc' = "done"
    /\ UNCHANGED <<inputs, temp_gap_array, temp_known_pixels, gap_indices, task,
                   collected, filled_array, actual_scores, validation_scores,
                   rng, np_rng, diag, call, run_no, first_filled, first_results,
                   rng0, np_rng0>>

\* a second run on the same inputs, in a new process: the generators start
\* from new states
Rerun ==
    /\ pc = "done"
    /\ run_no = 1
    /\ cpu_count = 1
    /\ run_no' = 2
    /\ first_filled' = filled_array
    /\ first_results' = <<>>
    /\ rng' \in 0..(NumSeeds - 1)
    /\ np_rng' \in {0, 1}
    /\ rng0' = rng'
    /\ np_rng0' = np_rng'
    /\ predictor = "AllPoints" => rng' = 0
    /\ hyperparameters = "FullGridSearch" => np_rng' = 0
    /\ temp_gap_array' = <<>>
    /\ temp_known_pixels' = 0
    /\ gap_indices' = <<>>
    /\ pc' = "start"
    /\ task' = NoTasks
    /\ collected' = 0
    /\ filled_array' = <<>>
    /\ actual_scores' = <<>>
    /\ validation_scores' = <<>>
    /\ diag' = <<>>
    /\ call' = NoCall
    /\ UNCHANGED inputs

\* the same run again with a pool of one worker and the generators in the
\* states they had at the start: the sequential execution
RerunSequential ==
    /\ pc = "done"
    /\ run_no = 1
    /\ cpu_count > 1
    /\ run_no' = 3
    /\ first_filled' = filled_array
    /\ first_results' = [k \in 1..collected |-> task[k].result]
    /\ rng' = rng0
    /\ np_rng' = np_rng0
    /\ UNCHANGED <<rng0, np_rng0>>
    /\ temp_gap_array' = <<>>
    /\ temp_known_pixels' = 0
    /\ gap_indices' = <<>>
    /\ pc' = "start"
    /\ task' = NoTasks
    /\ collected' = 0
    /\ filled_array' = <<>>
    /\ actual_scores' = <<>>
    /\ validation_scores' = <<>>
    /\ diag' = <<>>
    /\ call' = NoCall
    /\ UNCHANGED inputs

Next ==
    \/ process_gap_array
    \/ fill_the_gaps
    \/ \E k \in DOMAIN task : PixelModel(k)
    \/ \E k \in DOMAIN task : SampleIter(k)
    \/ Collect
    \/ Return
    \/ Rerun
    \/ RerunSequential

Spec == Init /\ [][Next]_vars

\* the runs on the target matrices large enough for the sampling loop
LiveInit == Init /\ Size(shape) > 100

\* the thread of fill_the_gaps keeps running: a step of it that stays
\* possible is taken in the end.  What the workers draw is an assumption of
\* the property itself, not of the scheduling
LiveSpec ==
    /\ LiveInit /\ [][Next]_vars
    /\ WF_vars(process_gap_array) /\ WF_vars(fill_the_gaps)
    /\ WF_vars(Collect) /\ WF_vars(Return)

-----------------------------------------------------------------------------
(* Vocabulary of the properties *)

\* is v the gap marker of this run
IsGapMarker(v) == IF isnan(gap_value) THEN isnan(v) ELSE v = Sentinel

\* the gap-marked cells of the target matrix at the start of the run
GapCells == {c \in Cells(shape) : IsGapMarker(data_with_gaps[c])}

\* the run has ended: fill_the_gaps returned or raised
Ended == pc \in {"done", "raised"}

\* the Gap Results the loop of fill_the_gaps has received
Results == [k \in 1..collected |-> task[k].result]

ResultCoords == {Results[k][1] : k \in 1..collected}

\* the last pixel_model call has finished
Called == call.gap_index # <<>>

-----------------------------------------------------------------------------
(* C1 *)

\* C1: when a run of fill_the_gaps has ended, it has produced exactly one Gap
\* Result per gap pixel: the result coordinates are the gap-marked cells of
\* the target matrix at the start, none missing and none twice.
C1_OneResultPerGapPixel ==
    Ended => /\ ResultCoords = GapCells
             /\ \A a, b \in 1..collected : a # b => Results[a][1] # Results[b][1]

-----------------------------------------------------------------------------
(* C2 *)

\* C2: after fill_the_gaps has returned, every gap coordinate holds a value
\* that is not the gap marker, unless interpolation gave no value for it, and
\* then the message was printed for it.
C2_NoGapMarkerLeft ==
    pc = "done" =>
        \A k \in 1..Len(gap_indices) :
            IF task[k].result[2] = None
            THEN \E d \in 1..Len(diag) : diag[d] = gap_indices[k]
            ELSE ~IsGapMarker(filled_array[gap_indices[k]])

-----------------------------------------------------------------------------
(* C3 *)

\* a per-pixel failure happened in the last call
PixelFailure == call.insufficient \/ call.train_failed \/ call.interp_none

\* C3: a pixel_model call in which the selector signalled insufficient data,
\* training failed or interpolation gave no value does not raise; it returns
\* a Gap Result with validation score "not available", and with the
\* prediction None when interpolation gave no value.
C3_FailuresStayLocal ==
    (Called /\ PixelFailure) =>
        /\ ~call.raised
        /\ call.result[4] = NotAvailable
        /\ call.interp_none => call.result[2] = None

-----------------------------------------------------------------------------
(* C4 *)

\* C4: a coordinate list returned by get_random_points holds no coordinate
\* twice and no coordinate whose target value is the gap marker.
C4_RandomPointsCleanList ==
    (Called /\ call.rp_called) =>
        /\ NoDuplicates(call.rp)
        /\ \A k \in 1..Len(call.rp) : ~IsGapMarker(temp_gap_array[call.rp[k]])

-----------------------------------------------------------------------------
(* C5 *)

\* C5: a Gap Result carries a numeric actual error exactly in a simulated-gap
\* run and "not available" exactly in a real-gap run, on every path.
C5_ActualScoreByMode ==
    \A k \in DOMAIN task :
        task[k].st = "done" =>
            IF gap_value = Sentinel THEN task[k].result[3].t = "num"
            ELSE task[k].result[3] = NotAvailable

-----------------------------------------------------------------------------
(* C6 *)

\* C6: when train_model succeeds, in each hyperparameter mode, the validation
\* score it returns is a single non-negative number.
C6_ValidationScoreNonNegative ==
    (Called /\ call.trained /\ ~call.train_failed) =>
        /\ call.result[4].t = "num"
        /\ call.result[4].v[1] >= 0

-----------------------------------------------------------------------------
(* C7 *)

\* the value the table is built from, at row label r and coordinate c, the
\* sentinel read as missing
SourceValue(r, c) ==
    LET v == IF r < NumHist THEN training_data[r + 1][c] ELSE temp_gap_array[c]
    IN IF v = Sentinel THEN NaN ELSE v

\* the coordinate of the k-th column that is left in the table of the call
ColumnCoord(k) == call.coords[call.table.cols[k] + 1]

-----------------------------------------------------------------------------
(* C8 *)

\* C8: the filled matrix equals the target matrix at every cell that was not
\* gap-marked at the start, and self.temp_gap_array is left as it was loaded.
C8_OnlyGapCellsWritten ==
    pc \in {"filling", "done"} =>
        /\ \A c \in Cells(shape) \ GapCells : filled_array[c] = data_with_gaps[c]
        /\ temp_gap_array = data_with_gaps

\* a run returned a matrix in which a gap cell was given a new value, beside
\* cells that were no gaps
C8_GapFilledBesideKnownCells ==
    /\ pc = "done"
    /\ GapCells # Cells(shape)
    /\ \E g \in GapCells : filled_array[g] # data_with_gaps[g]

-----------------------------------------------------------------------------
(* C9 *)

\* both runs on the same inputs have returned
BothRunsDone == run_no = 2 /\ pc = "done"

\* the known pixels of the target matrix, as process_gap_array counts them
KnownCells == {c \in Cells(shape) : ~IsGapMarker(data_with_gaps[c])
                                   /\ ~isnan(data_with_gaps[c])}

\* the cells that are no gaps and have the class of g
SameClassCells(g) == {c \in Cells(shape) : /\ ~IsGapMarker(data_with_gaps[c])
                                           /\ extra_matrix[c] = extra_matrix[g]}

\* C9 as stated: with hyperparameters Custom and predictor AllPoints or LCC,
\* two runs on identical inputs return identical filled matrices.
C9_TwoRunsSameMatrix ==
    (BothRunsDone /\ hyperparameters = "Custom" /\ predictor \in {"AllPoints", "LCC"})
        => filled_array = first_filled

\* C9 amended: the same, for LCC only when no gap pixel makes get_random_points
\* sample: every gap pixel has at least 40 same-class candidates, or the
\* matrix has fewer than 100 known pixels.
C9_TwoRunsSameMatrixWithoutSampling ==
    (/\ BothRunsDone
     /\ hyperparameters = "Custom"
     /\ predictor \in {"AllPoints", "LCC"}
     /\ predictor = "LCC" =>
            \/ Cardinality(KnownCells) < 100
            \/ \A g \in GapCells : Cardinality(SameClassCells(g)) >= 40)
        => filled_array = first_filled

\* two LCC runs with Custom hyperparameters returned, the second with other
\* generator states, after get_random_points was called and a model was
\* trained
C9_TwoLccRunsThroughRandomPoints ==
    /\ BothRunsDone
    /\ hyperparameters = "Custom"
    /\ predictor = "LCC"
    /\ call.rp_called /\ call.trained /\ ~call.train_failed
    /\ Cardinality(KnownCells) < 100

-----------------------------------------------------------------------------
(* C10 *)

\* the candidate array the nearest coordinates of the last call were taken from
CandidateArray == IF call.rp_called THEN call.rp ELSE lcc_candidates(call.gap_index)

\* the position of a coordinate in a list without duplicates
PositionIn(l, c) == CHOOSE k \in 1..Len(l) : l[k] = c

\* C10: a list returned by get_extra_matrix_points has at most 41 entries,
\* ends with the gap pixel, holds no neighbour twice, and its neighbours are in
\* non-decreasing order of distance to the gap pixel, equal distances in the
\* order of the candidate array.
C10_NearestNeighboursInOrder ==
    (Called /\ call.built /\ predictor = "LCC") =>
        LET l == call.coords
            n == Len(l) - 1
            g == call.gap_index
        IN /\ Len(l) <= 41
           /\ l[Len(l)] = g
           /\ \A a, b \in 1..n : a # b => l[a] # l[b]
           /\ \A a \in 1..(n - 1) :
                \/ dist2(g, l[a]) < dist2(g, l[a + 1])
                \/ /\ dist2(g, l[a]) = dist2(g, l[a + 1])
                   /\ PositionIn(CandidateArray, l[a]) < PositionIn(CandidateArray, l[a + 1])

\* a list of 41 entries was returned in which two neighbours are equally far
\* from the gap pixel
C10_FortyNeighboursWithTie ==
    /\ Called /\ call.built /\ predictor = "LCC"
    /\ Len(call.coords) = 41
    /\ \E a \in 1..39 : dist2(call.gap_index, call.coords[a])
                          = dist2(call.gap_index, call.coords[a + 1])

-----------------------------------------------------------------------------
(* C11 *)

\* C11: under AllPoints and RandomPoints, when the selection gave a list, the
\* list pixel_model passes to create_dataframe ends with the gap pixel's own
\* coordinate, and the last column of the feature table is the gap pixel's.
C11_GapPixelIsLastColumn ==
    (Called /\ call.built /\ predictor \in {"AllPoints", "RandomPoints"}) =>
        /\ Len(call.coords) > 0
        /\ call.coords[Len(call.coords)] = call.gap_index
        /\ Len(call.table.cols) > 0
        /\ ColumnCoord(Len(call.table.cols)) = call.gap_index

\* a RandomPoints call that sampled its list and built a table from which
\* columns were dropped
C11_SampledListWithGapLast ==
    /\ Called /\ call.built /\ predictor = "RandomPoints"
    /\ Len(call.rp) > 100
    /\ Len(call.table.cols) < Len(call.coords)

-----------------------------------------------------------------------------
(* C12 *)

\* C12: every pixel_model call goes SELECT_PREDICTORS, BUILD_TABLE, SPLIT,
\* TRAIN, DONE, with INTERPOLATE as the only detour: entered only on the
\* insufficient-data signal, on an empty training set or on a training
\* failure, at most once, and followed directly by DONE; DONE yields one Gap
\* Result.
C12_PixelStateMachine ==
    Called =>
        /\ \/ call.path = <<"SELECT_PREDICTORS", "BUILD_TABLE", "SPLIT", "TRAIN", "DONE">>
           \/ /\ call.path = <<"SELECT_PREDICTORS", "INTERPOLATE", "DONE">>
              /\ call.insufficient
           \/ /\ call.path = <<"SELECT_PREDICTORS", "BUILD_TABLE", "SPLIT",
                                "INTERPOLATE", "DONE">>
              /\ call.n_train = 0
           \/ /\ call.path = <<"SELECT_PREDICTORS", "BUILD_TABLE", "SPLIT", "TRAIN",
                                "INTERPOLATE", "DONE">>
              /\ call.train_failed
        /\ Len(call.result) = 4

-----------------------------------------------------------------------------
(* C13 *)

\* C13: with K the number of known (non-gap, non-missing) pixels,
\* get_random_points returns its message when K < 50, exactly the K known
\* coordinates when 50 <= K < 100, and exactly 100 sampled coordinates when
\* K >= 100.
C13_RandomPointsByKnownCount ==
    (Called /\ call.rp_called) =>
        LET K == Cardinality(KnownCells)
        IN /\ K < 50 => call.insufficient
           /\ K >= 50 => ~call.insufficient
           /\ (K >= 50 /\ K < 100) => (Len(call.rp) = K /\ Range(call.rp) = KnownCells)
           /\ K >= 100 => Len(call.rp) = 100

-----------------------------------------------------------------------------
(* C14 *)

\* a call is inside the sampling loop of get_random_points
Sampling == \E k \in DOMAIN task : task[k].st = "sampling"

\* C14: if every coordinate of the matrix is drawn again and again, no call
\* stays in the sampling loop of get_random_points for ever: with 100 or
\* more known pixels the loop is left.
C14_SamplingTerminates ==
    (\A c \in Cells(<<11, 11>>) : []<>(random_coordinates(rng) = c))
        => []<>(~Sampling)

-----------------------------------------------------------------------------
(* C15 *)

\* the known cells nearest to the gap pixel g
NearestKnownCells(g) ==
    {c \in KnownCells : \A d \in KnownCells : dist2(g, c) <= dist2(g, d)}

\* C15: in both gap modes interpolation gives no value, with its message,
\* exactly when the target matrix has fewer than 10 usable known values
\* (cells that are neither -100 nor NaN); with 10 or more it gives the value
\* of a nearest known cell.
C15_InterpolationThreshold ==
    (Called /\ call.interpolated) =>
        /\ call.interp_none <=> Cardinality(KnownCells) < 10
        /\ (Cardinality(KnownCells) >= 10 /\ ~call.raised) =>
               \E c \in NearestKnownCells(call.gap_index) :
                   call.result[2] = Num(temp_gap_array[c])

-----------------------------------------------------------------------------
(* C16 *)

\* C16: after the split, pixel_model goes to interpolation without calling
\* train_model exactly when the training set has no row; a training set with
\* one complete row or more, whatever its values, is passed to train_model.
C16_TrainUnlessNoRows ==
    (Called /\ call.built) => (call.trained <=> call.n_train > 0)

-----------------------------------------------------------------------------
(* C17 *)

\* the run on the pool has returned, and so has its sequential re-run
SequentialDone == run_no = 3 /\ pc = "done"

\* no call of the run draws coordinates from Python's random generator
NoSampling ==
    \/ predictor = "AllPoints"
    \/ Cardinality(KnownCells) < 100
    \/ predictor = "LCC" /\ \A g \in GapCells : Cardinality(SameClassCells(g)) >= 40

\* C17 as stated: whatever the interleaving of the pixel_model calls on the
\* pool, every Gap Result and the filled matrix are those of the sequential
\* execution.
C17_ThreadsAsSequential ==
    SequentialDone => (Results = first_results /\ filled_array = first_filled)

\* C17 amended: every result is keyed by its own gap index; when no call
\* samples coordinates and the hyperparameters are not drawn at random, the
\* predictions, the actual scores and the filled matrix are those of the
\* sequential execution, and with FullGridSearch the validation scores too.
C17_ThreadsAsSequentialWithoutDraws ==
    /\ \A k \in 1..collected : Results[k][1] = gap_indices[k]
    /\ (SequentialDone /\ NoSampling /\ hyperparameters # "RandomGridSearch") =>
          /\ filled_array = first_filled
          /\ \A k \in 1..collected : /\ Results[k][2] = first_results[k][2]
                                      /\ Results[k][3] = first_results[k][3]
          /\ hyperparameters = "FullGridSearch" => Results = first_results

\* a run on two workers whose calls trained their models in another order
\* than the sequential run: the validation scores differ
C17_CallsRanOutOfOrder ==
    /\ SequentialDone /\ NoSampling /\ hyperparameters = "Custom"
    /\ Len(gap_indices) >= 2
    /\ call.trained /\ ~call.train_failed
    /\ Results # first_results

-----------------------------------------------------------------------------
(* C18 *)

\* C18: whenever pixel_model calls train_model, the last row of the table,
\* from which X_test is taken, is the target row (row label NumHist), not a
\* historical time-step.
C18_TestRowIsTargetRow ==
    (Called /\ call.trained) =>
        /\ Len(call.table.idx) > 0
        /\ call.table.idx[Len(call.table.idx)] = NumHist

====
